---- MODULE Spec2Model ----
(***************************************************************************)
(* Model of the card-based leaf measurement engine of the harvest API      *)
(* (apps/server/app/api/harvest.py): order_points, apply_quad_warp,        *)
(* detect_credit_card and the handlers of the router, and of the request   *)
(* rate limiter (apps/server/app/services/rate_limiter.py).                *)
(*                                                                         *)
(* Arithmetic.  Pixel coordinates are integers and lengths are held in      *)
(* tenths of a centimetre.  The code computes with IEEE doubles; the model *)
(* holds a pixel distance exactly, as a sum of square roots of integers,   *)
(* and decides a rounding or a comparison exactly.  Where the exact value  *)
(* lies on the boundary of a rounding or of a comparison (an exact decimal *)
(* tie) the binary rounding of the operands decides in the code, and the   *)
(* model takes both outcomes.  A sum of several different square roots is  *)
(* bracketed by fixed-point numbers at SqrtScale units per pixel and every *)
(* tenth the bracket allows is taken.                                      *)
(***************************************************************************)
EXTENDS Integers, Sequences, FiniteSets, TLC

VARIABLES
    pts,            \* order_points: the argument
    ordered,        \* order_points: the returned array, an error, or NotCalled
    img,            \* apply_quad_warp: the image argument
    quad_points,    \* apply_quad_warp: the corner argument
    warped,         \* apply_quad_warp: the returned image, an error, or NotCalled
    card_data,      \* measure_leaf_length: parsed card_corners
    leaf_data,      \* measure_leaf_length: parsed leaf_measurements
    response,       \* measure_leaf_length, detect_card: the response, or NotCalled
    endpoint,       \* the handler a request is routed to
    contours,       \* detect_credit_card: the contours cv2.findContours returns
    detected,       \* detect_credit_card: the returned corners, None, or NotCalled
    MATURITY_CONFIG,    \* harvest.py: the module-level threshold dictionary
    worker,         \* the requests being handled, one per worker
    answered,       \* the <<request, response>> pairs returned so far
    time,           \* time.time(), in ticks
    request_log,    \* RateLimiter._request_log: client_ip -> deque of timestamps
    thread,         \* the calls of is_allowed in progress, one per thread
    returned        \* the calls of is_allowed that have returned, oldest first

vars == <<pts, ordered, img, quad_points, warped, card_data, leaf_data, response,
          endpoint, contours, detected, MATURITY_CONFIG, worker, answered,
          time, request_log, thread, returned>>

orderVars   == <<pts, ordered>>
warpVars    == <<img, quad_points, warped>>
measureVars == <<card_data, leaf_data, response>>
detectVars  == <<contours, detected>>
serviceVars == <<MATURITY_CONFIG, worker, answered>>
limiterVars == <<time, request_log, thread, returned>>

\* the value of a result variable before the call has returned
NotCalled == [called |-> FALSE]

(***************************************************************************)
(* Module-level state.  MATURITY_CONFIG is a dictionary any code of the    *)
(* process could assign to; the limiter's log and the clock belong to the  *)
(* RateLimiter.  A specification that does not exercise them leaves them   *)
(* as loaded.                                                              *)
(***************************************************************************)
L1_TENTHS == 180            \* MATURITY_CONFIG["L1"] = 18.0 cm

L2_TENTHS == 250            \* MATURITY_CONFIG["L2"] = 25.0 cm

\* lines 23-26: MATURITY_CONFIG as the module is loaded
MaturityConfigLoaded == [L1 |-> L1_TENTHS, L2 |-> L2_TENTHS]

ServiceUnused ==
    /\ MATURITY_CONFIG = MaturityConfigLoaded
    /\ worker = NotCalled /\ answered = NotCalled

LimiterUnused ==
    /\ time = NotCalled /\ request_log = NotCalled
    /\ thread = NotCalled /\ returned = NotCalled

(***************************************************************************)
(* Bounds of the model.                                                    *)
(***************************************************************************)
GridMax == 2        \* corner coordinates of order_points / apply_quad_warp inputs are 0..GridMax

Grid == (0..GridMax) \X (0..GridMax)

Quads == [1..4 -> Grid]

(***************************************************************************)
(* Helpers.                                                                *)
(***************************************************************************)
Max2(a, b) == IF a >= b THEN a ELSE b

Sq(a) == a * a

MinOf(S) == CHOOSE m \in S : \A v \in S : m <= v

MaxOf(S) == CHOOSE m \in S : \A v \in S : m >= v

RECURSIVE ISqrt(_)
\* floor of the square root of a natural number
ISqrt(n) ==
    IF n < 2 THEN n
    ELSE LET s == 2 * ISqrt(n \div 4)
         IN  IF Sq(s + 1) <= n THEN s + 1 ELSE s

Dist2(p, q) == Sq(q[1] - p[1]) + Sq(q[2] - p[2])

Perms4 == { f \in [1..4 -> 1..4] : \A i, j \in 1..4 : i # j => f[i] # f[j] }

Permute(q, f) == [i \in 1..4 |-> q[f[i]]]

(***************************************************************************)
(* order_points                                                            *)
(***************************************************************************)
\* np.argmin: the first index holding the minimum
ArgMin(v) ==
    CHOOSE i \in DOMAIN v :
        /\ \A j \in DOMAIN v : v[i] <= v[j]
        /\ \A j \in DOMAIN v : j < i => v[j] > v[i]

\* np.argmax: the first index holding the maximum
ArgMax(v) ==
    CHOOSE i \in DOMAIN v :
        /\ \A j \in DOMAIN v : v[i] >= v[j]
        /\ \A j \in DOMAIN v : j < i => v[j] < v[i]

PointDiff_xy(p) == p[1] - p[2]

PointSum(p) == p[1] + p[2]

\* np.diff(pts, axis=1): y - x
PointDiff(p) == p[2] - p[1]

ExpectedFourPoints == [error |-> "ValueError", detail |-> "Expected 4 points"]

IsError(r) == DOMAIN r = {"error", "detail"}

\* the array [tl, tr, br, bl] that order_points returns
OrderedQuad(tl, tr, br, bl) == [tl |-> tl, tr |-> tr, br |-> br, bl |-> bl]

order_points_at_least(p) ==
    IF Len(p) < 4 THEN ExpectedFourPoints
    ELSE LET s == [i \in 1..4 |-> PointSum(p[i])]
             d == [i \in 1..4 |-> PointDiff(p[i])]
         IN  OrderedQuad(p[ArgMin(s)], p[ArgMin(d)], p[ArgMax(s)], p[ArgMax(d)])

order_points_swapped(p) ==
    IF Len(p) # 4 THEN ExpectedFourPoints
    ELSE LET s == [i \in 1..4 |-> PointSum(p[i])]
             d == [i \in 1..4 |-> PointDiff(p[i])]
         IN  OrderedQuad(p[ArgMin(s)], p[ArgMax(d)], p[ArgMax(s)], p[ArgMin(d)])

order_points(p) ==
    IF Len(p) # 4 THEN ExpectedFourPoints
    ELSE LET s == [i \in 1..4 |-> PointSum(p[i])]
             d == [i \in 1..4 |-> PointDiff(p[i])]
         IN  OrderedQuad(p[ArgMin(s)], p[ArgMin(d)], p[ArgMax(s)], p[ArgMax(d)])

(***************************************************************************)
(* apply_quad_warp                                                         *)
(***************************************************************************)
\* int(np.linalg.norm(q - p)): the edge length truncated to an integer
EdgeLen(p, q) == ISqrt(Dist2(p, q))

apply_quad_warp_unordered(image, q) ==
    LET o == order_points(q)
    IN  IF IsError(o) THEN o
        ELSE LET max_width  == Max2(EdgeLen(q[1], q[2]), EdgeLen(q[4], q[3]))
                 max_height == Max2(EdgeLen(q[1], q[4]), EdgeLen(q[2], q[3]))
             IN  [width  |-> max_width,
                  height |-> max_height,
                  src    |-> OrderedQuad(q[1], q[2], q[3], q[4]),
                  dst    |-> << <<0, 0>>, <<max_width - 1, 0>>,
                               <<max_width - 1, max_height - 1>>,
                               <<0, max_height - 1>> >>,
                  image  |-> image]

\* The warped image is determined by the source image, the four
\* source-to-destination correspondences (which fix the homography) and the
\* output size.  The record holds what the function hands to
\* cv2.getPerspectiveTransform and cv2.warpPerspective: the ordered source
\* corners, dst_points, the image and the size (max_width, max_height).
apply_quad_warp(image, q) ==
    LET o == order_points(q)
    IN  IF IsError(o) THEN o
        ELSE LET tl == o.tl
                 tr == o.tr
                 br == o.br
                 bl == o.bl
                 max_width  == Max2(EdgeLen(tl, tr), EdgeLen(bl, br))
                 max_height == Max2(EdgeLen(tl, bl), EdgeLen(tr, br))
             IN  [width  |-> max_width,
                  height |-> max_height,
                  src    |-> o,
                  dst    |-> << <<0, 0>>, <<max_width - 1, 0>>,
                               <<max_width - 1, max_height - 1>>,
                               <<0, max_height - 1>> >>,
                  image  |-> image]

Images == {"imgA", "imgB"}

(***************************************************************************)
(* Specification of order_points: every 4-tuple of grid points is an input.*)
(***************************************************************************)
InitOrder ==
    /\ pts \in Quads
    /\ ordered = NotCalled
    /\ img = NotCalled /\ quad_points = NotCalled /\ warped = NotCalled
    /\ card_data = NotCalled /\ leaf_data = NotCalled /\ response = NotCalled
    /\ endpoint = NotCalled /\ contours = NotCalled /\ detected = NotCalled
    /\ ServiceUnused /\ LimiterUnused

CallOrderPoints ==
    /\ ordered = NotCalled
    /\ ordered' = order_points(pts)
    /\ UNCHANGED <<pts, warpVars, measureVars, endpoint, detectVars, serviceVars, limiterVars>>

NextOrder == CallOrderPoints

SpecOrder == InitOrder /\ [][NextOrder]_vars

(***************************************************************************)
(* Specification of apply_quad_warp.                                       *)
(***************************************************************************)
\* a skewed quadrilateral without two corners of equal x+y or equal y-x:
\* top and bottom edges sqrt(116), left and right edges sqrt(101)
SkewQuad == << <<0, 0>>, <<10, 4>>, <<11, 14>>, <<1, 10>> >>

WarpQuads == Quads \cup { Permute(SkewQuad, f) : f \in Perms4 }

InitWarp ==
    /\ img \in Images
    /\ quad_points \in WarpQuads
    /\ warped = NotCalled
    /\ pts = NotCalled /\ ordered = NotCalled
    /\ card_data = NotCalled /\ leaf_data = NotCalled /\ response = NotCalled
    /\ endpoint = NotCalled /\ contours = NotCalled /\ detected = NotCalled
    /\ ServiceUnused /\ LimiterUnused

CallApplyQuadWarp ==
    /\ warped = NotCalled
    /\ warped' = apply_quad_warp(img, quad_points)
    /\ UNCHANGED <<img, quad_points, orderVars, measureVars, endpoint, detectVars, serviceVars, limiterVars>>

NextWarp == CallApplyQuadWarp

SpecWarp == InitWarp /\ [][NextWarp]_vars

(***************************************************************************)
(* Specification of the point-count check: order_points and               *)
(* apply_quad_warp on point lists of every length up to MaxPoints.         *)
(***************************************************************************)
MaxPoints == 5      \* the longest point list given to the two functions

CountGrid == { <<0, 0>>, <<GridMax, 1>> }

PointLists == UNION { [1..n -> CountGrid] : n \in 0..MaxPoints }

InitCount ==
    /\ pts \in PointLists
    /\ ordered = NotCalled
    /\ img \in Images
    /\ quad_points \in PointLists
    /\ warped = NotCalled
    /\ card_data = NotCalled /\ leaf_data = NotCalled /\ response = NotCalled
    /\ endpoint = NotCalled /\ contours = NotCalled /\ detected = NotCalled
    /\ ServiceUnused /\ LimiterUnused

NextCount == CallOrderPoints \/ CallApplyQuadWarp

SpecCount == InitCount /\ [][NextCount]_vars

(***************************************************************************)
(* measure_leaf_length                                                     *)
(*                                                                         *)
(* Lengths are held in tenths of a centimetre (the code rounds every       *)
(* length and the average to one decimal place), so 180 is 18.0 cm.        *)
(***************************************************************************)
SqrtScale == 1000           \* units per pixel of the brackets of a square root

CARD_WIDTH_TENTH_MM == 856  \* CARD_WIDTH_MM = 85.60, in tenths of a millimetre

MIN_LEAVES == 1

MAX_LEAVES == 3

MIN_CURVE_POINTS == 3

STD_LOW_TENTHS == 40        \* std_dev >= 4 (cm)

STD_MEDIUM_TENTHS == 20     \* std_dev >= 2 (cm)

P(a, b) == [x |-> a, y |-> b]

Straight(b, t) == [base |-> b, tip |-> t]

Curve(ps) == [points |-> ps]

CeilDiv(a, b) == -((-a) \div b)

PointDist2(p, q) == Sq(q.x - p.x) + Sq(q.y - p.y)

(***************************************************************************)
(* Pixel distances are sums of square roots of integers.  A distance is    *)
(* held exactly, as a set of terms c * sqrt(t) with distinct square-free t *)
(* (sqrt(m*m*t) = m * sqrt(t), and like terms add up).                     *)
(***************************************************************************)
\* the largest m with m * m dividing n (n > 0)
SquarePart(n) ==
    CHOOSE m \in 1..ISqrt(n) :
        /\ n % (m * m) = 0
        /\ \A k \in (m + 1)..ISqrt(n) : n % (k * k) # 0

\* np.sqrt(n) for an integer n >= 0
Root(n) ==
    IF n = 0 THEN {}
    ELSE { [c |-> SquarePart(n), t |-> n \div Sq(SquarePart(n))] }

\* the coefficient of sqrt(t) in the distance d
Coefficient(d, t) ==
    IF \E e \in d : e.t = t THEN (CHOOSE e \in d : e.t = t).c ELSE 0

\* a + b for two distances
Plus(a, b) ==
    { [c |-> e.c + Coefficient(b, e.t), t |-> e.t] : e \in a }
        \cup { e \in b : \A f \in a : f.t # e.t }

\* the square of a distance that is a single term (or zero)
SingleTerm(d) == Cardinality(d) <= 1

SquareOf(d) == IF d = {} THEN 0 ELSE LET e == CHOOSE e \in d : TRUE IN Sq(e.c) * e.t

RECURSIVE BracketLo(_)
\* floor and ceiling brackets of a distance, in 1/SqrtScale pixels
BracketLo(d) ==
    IF d = {} THEN 0
    ELSE LET e == CHOOSE e \in d : TRUE
         IN  ISqrt(Sq(e.c) * e.t * Sq(SqrtScale)) + BracketLo(d \ {e})

RECURSIVE BracketHi(_)
BracketHi(d) ==
    IF d = {} THEN 0
    ELSE LET e == CHOOSE e \in d : TRUE
             n == Sq(e.c) * e.t * Sq(SqrtScale)
         IN  (IF Sq(ISqrt(n)) = n THEN ISqrt(n) ELSE ISqrt(n) + 1) + BracketHi(d \ {e})

RECURSIVE SumSegments(_, _)
\* the loop of lines 606-614: pixel_distance += segment_distance
SumSegments(points, i) ==
    IF i >= Len(points) THEN {}
    ELSE Plus(Root(PointDist2(points[i], points[i + 1])), SumSegments(points, i + 1))

EndpointsOnly(leaf) ==
    IF "points" \in DOMAIN leaf
    THEN Root(PointDist2(leaf.points[1], leaf.points[Len(leaf.points)]))
    ELSE Root(PointDist2(leaf.base, leaf.tip))

\* pixel_distance of one leaf entry (lines 603-623)
PixelDistance(leaf) ==
    IF "points" \in DOMAIN leaf
    THEN SumSegments(leaf.points, 1)
    ELSE Root(PointDist2(leaf.base, leaf.tip))

CardWidthPixels_next_edge(card) == Root(PointDist2(card[2], card[3]))

\* card_width_pixels (lines 588-591): the distance between card_data[0] and
\* card_data[1]
CardWidthPixels(card) == Root(PointDist2(card[1], card[2]))

\* k tenths of a cm is within 1/2 of 856 * sqrt(d2) / (10 * sqrt(w2)):
\* (2k - 1) * 5 * sqrt(w2) <= 856 * sqrt(d2) <= (2k + 1) * 5 * sqrt(w2)
NearestTenth(k, d2, w2) ==
    /\ (k = 0 \/ Sq(2 * k - 1) * 25 * w2 <= Sq(CARD_WIDTH_TENTH_MM) * d2)
    /\ Sq(CARD_WIDTH_TENTH_MM) * d2 <= Sq(2 * k + 1) * 25 * w2

\* round(float(pixel_distance / pixels_per_mm / 10.0), 1) with
\* pixels_per_mm = card_width_pixels / 85.60 (lines 594, 626-629), in tenths
\* of a cm: the integers nearest to 856 * px / (10 * w).  A value half-way
\* between two tenths is rounded as the doubles fall, to either neighbour.
\* A distance of one term is decided exactly, a sum of several terms from
\* its brackets.
RoundedLength(px, w) ==
    LET lo == CeilDiv(2 * CARD_WIDTH_TENTH_MM * BracketLo(px) - 10 * BracketHi(w),
                      20 * BracketHi(w))
        hi == (2 * CARD_WIDTH_TENTH_MM * BracketHi(px) + 10 * BracketLo(w))
                  \div (20 * BracketLo(w))
    IN  IF SingleTerm(px)
        THEN { k \in Max2(lo, 0) .. hi : NearestTenth(k, SquareOf(px), SquareOf(w)) }
        ELSE Max2(lo, 0) .. hi

RECURSIVE LengthTuples(_, _, _)
LengthTuples(leaves, w, i) ==
    IF i > Len(leaves) THEN { <<>> }
    ELSE { <<k>> \o rest : k \in RoundedLength(PixelDistance(leaves[i]), w),
                           rest \in LengthTuples(leaves, w, i + 1) }

\* every list leaf_lengths_cm the loop of lines 601-629 can build; the
\* computation is deterministic, so equal entries get equal lengths
LengthLists(leaves, w) ==
    { lengths \in LengthTuples(leaves, w, 1) :
        \A i, j \in 1..Len(leaves) : leaves[i] = leaves[j] => lengths[i] = lengths[j] }

RECURSIVE SeqSum(_)
SeqSum(s) == IF s = <<>> THEN 0 ELSE Head(s) + SeqSum(Tail(s))

RoundedAverage_truncated(lengths) ==
    { SeqSum(lengths) \div Len(lengths) }

\* round(sum(leaf_lengths_cm) / len(leaf_lengths_cm), 1): the tenths nearest
\* to the mean; a mean half-way between two tenths goes either way
RoundedAverage(lengths) ==
    LET n == Len(lengths)
        s == SeqSum(lengths)
    IN  CeilDiv(2 * s - n, 2 * n) .. ((2 * s + n) \div (2 * n))

StageOf_strict(avg) ==
    IF avg > L2_TENTHS THEN "MATURE"
    ELSE IF avg > L1_TENTHS THEN "INTERMEDIATE"
    ELSE "NOT_MATURE"

\* lines 634-640: the stage, read off the thresholds of MATURITY_CONFIG
StageUnder(config, avg) ==
    IF avg >= config.L2 THEN "MATURE"
    ELSE IF avg >= config.L1 THEN "INTERMEDIATE"
    ELSE "NOT_MATURE"

\* the stage under MATURITY_CONFIG as loaded
StageOf(avg) == StageUnder(MaturityConfigLoaded, avg)

\* sum((x - mean) ** 2 for x in leaf_lengths_cm), in tenths squared
SquaredDeviations(lengths, mean) ==
    SeqSum([i \in 1..Len(lengths) |-> Sq(lengths[i] - mean)])

\* k / 10 is a binary fraction, hence an exact double, when k is a multiple
\* of 5; arithmetic on such (small) values is exact
BinaryExact(k) == k % 5 = 0

AllExact(lengths, mean) ==
    BinaryExact(mean) /\ \A i \in 1..Len(lengths) : BinaryExact(lengths[i])

\* std_dev >= t for std_dev = sqrt(v / n): the outcomes of the comparison.
\* Equality of the exact values is decided by the rounding of the doubles
\* unless every operand is exact.
StdAtLeast(lengths, mean, t) ==
    LET v == SquaredDeviations(lengths, mean)
        n == Len(lengths)
    IN  IF v > n * t * t THEN {TRUE}
        ELSE IF v < n * t * t THEN {FALSE}
        ELSE IF AllExact(lengths, mean) THEN {TRUE}
        ELSE {TRUE, FALSE}

NoMessage == "null"

OneLeafMessage == "Only 1 leaf measured. Measure 3 leaves for better accuracy."

HighVariationMessage == "High variation between measurements."

Confidence_guided(lengths, mean) ==
    IF Len(lengths) = 1
    THEN { <<"LOW", OneLeafMessage>> }
    ELSE { c \in { <<"LOW", HighVariationMessage>>, <<"MEDIUM", HighVariationMessage>>,
                   <<"HIGH", NoMessage>> } :
             \/ c[1] = "LOW" /\ TRUE \in StdAtLeast(lengths, mean, STD_LOW_TENTHS)
             \/ c[1] = "MEDIUM" /\ FALSE \in StdAtLeast(lengths, mean, STD_LOW_TENTHS)
                                /\ TRUE \in StdAtLeast(lengths, mean, STD_MEDIUM_TENTHS)
             \/ c[1] = "HIGH" /\ FALSE \in StdAtLeast(lengths, mean, STD_LOW_TENTHS)
                              /\ FALSE \in StdAtLeast(lengths, mean, STD_MEDIUM_TENTHS) }

\* lines 642-667: the (confidence_status, retake_message) pairs
Confidence(lengths, mean) ==
    IF Len(lengths) = 1
    THEN { <<"LOW", OneLeafMessage>> }
    ELSE { c \in { <<"LOW", HighVariationMessage>>, <<"MEDIUM", NoMessage>>,
                   <<"HIGH", NoMessage>> } :
             \/ c[1] = "LOW" /\ TRUE \in StdAtLeast(lengths, mean, STD_LOW_TENTHS)
             \/ c[1] = "MEDIUM" /\ FALSE \in StdAtLeast(lengths, mean, STD_LOW_TENTHS)
                                /\ TRUE \in StdAtLeast(lengths, mean, STD_MEDIUM_TENTHS)
             \/ c[1] = "HIGH" /\ FALSE \in StdAtLeast(lengths, mean, STD_LOW_TENTHS)
                              /\ FALSE \in StdAtLeast(lengths, mean, STD_MEDIUM_TENTHS) }

BadRequest(detail) == [status_code |-> 400, detail |-> detail]

HasXY(point) == "x" \in DOMAIN point /\ "y" \in DOMAIN point

\* lines 546-561: the structure check of one leaf entry
LeafWellFormed_two_points(leaf) ==
    IF "points" \in DOMAIN leaf
    THEN /\ Len(leaf.points) >= MIN_CURVE_POINTS - 1
         /\ \A j \in 1..Len(leaf.points) : HasXY(leaf.points[j])
    ELSE /\ "base" \in DOMAIN leaf /\ "tip" \in DOMAIN leaf
         /\ HasXY(leaf.base) /\ HasXY(leaf.tip)

LeafWellFormed(leaf) ==
    IF "points" \in DOMAIN leaf
    THEN /\ Len(leaf.points) >= MIN_CURVE_POINTS
         /\ \A j \in 1..Len(leaf.points) : HasXY(leaf.points[j])
    ELSE /\ "base" \in DOMAIN leaf /\ "tip" \in DOMAIN leaf
         /\ HasXY(leaf.base) /\ HasXY(leaf.tip)

\* lines 546-561: the message of the ValueError raised for leaf i (counted
\* from 1, as in the message), which is not well-formed
LeafErrorDetail(i, leaf) ==
    IF "points" \in DOMAIN leaf
    THEN IF Len(leaf.points) < MIN_CURVE_POINTS
         THEN "Leaf " \o ToString(i) \o " must have at least 3 points for curve tracing"
         ELSE "Leaf " \o ToString(i) \o " point "
                  \o ToString(MinOf({ j \in 1..Len(leaf.points) : ~HasXY(leaf.points[j]) }))
                  \o " must have x and y coordinates"
    ELSE IF "base" \in DOMAIN leaf /\ "tip" \in DOMAIN leaf
         THEN IF ~HasXY(leaf.base)
              THEN "Leaf " \o ToString(i) \o " base must have x and y coordinates"
              ELSE "Leaf " \o ToString(i) \o " tip must have x and y coordinates"
    ELSE "Leaf " \o ToString(i) \o " must have either 'points' array or 'base'/'tip' format"

ValidationErrors_up_to_four(card, leaves) ==
    IF Len(card) # 4 THEN { BadRequest("card_corners must contain exactly 4 points") }
    ELSE IF Len(leaves) < MIN_LEAVES \/ Len(leaves) > MAX_LEAVES + 1
         THEN { BadRequest("Must provide 1-3 leaf measurements") }
    ELSE IF \E i \in 1..Len(leaves) : ~LeafWellFormed(leaves[i])
         THEN LET i == MinOf({ k \in 1..Len(leaves) : ~LeafWellFormed(leaves[k]) })
              IN  { BadRequest(LeafErrorDetail(i, leaves[i])) }
    ELSE {}

\* lines 539-561: the validation errors raised (none when the inputs pass)
ValidationErrors(card, leaves) ==
    IF Len(card) # 4 THEN { BadRequest("card_corners must contain exactly 4 points") }
    ELSE IF Len(leaves) < MIN_LEAVES \/ Len(leaves) > MAX_LEAVES
         THEN { BadRequest("Must provide 1-3 leaf measurements") }
    ELSE IF \E i \in 1..Len(leaves) : ~LeafWellFormed(leaves[i])
         THEN LET i == MinOf({ k \in 1..Len(leaves) : ~LeafWellFormed(leaves[k]) })
              IN  { BadRequest(LeafErrorDetail(i, leaves[i])) }
    ELSE {}

Success(lengths, avg, conf) ==
    [leaf_lengths_cm    |-> lengths,
     avg_leaf_length_cm |-> avg,
     stage              |-> StageOf(avg),
     confidence_status  |-> conf[1],
     retake_message     |-> conf[2]]

\* the responses of measure_leaf_length for parsed card_corners and
\* leaf_measurements (lines 539-675)
measure_leaf_length(card, leaves) ==
    IF ValidationErrors(card, leaves) # {} THEN ValidationErrors(card, leaves)
    ELSE LET w == CardWidthPixels(card)
         IN  IF w = {}
             THEN { BadRequest("Invalid card calibration: card width cannot be zero") }
             ELSE UNION { UNION { { Success(lengths, avg, conf) :
                                      conf \in Confidence(lengths, avg) } :
                                  avg \in RoundedAverage(lengths) } :
                          lengths \in LengthLists(leaves, w) }

IsSuccess(r) == "stage" \in DOMAIN r

(***************************************************************************)
(* Inputs of the measure specification.                                    *)
(***************************************************************************)
\* an 8 x 5 pixel card lying axis-aligned, corners TL, TR, BR, BL
CardAxis == << P(0, 0), P(8, 0), P(8, 5), P(0, 5) >>

\* the same card turned by 45 degrees (edges 8*sqrt(2) and 5*sqrt(2))
CardTurned == << P(5, 0), P(13, 8), P(8, 13), P(0, 5) >>

\* corners whose first two points coincide: card_width_pixels is 0
CardFlat == << P(0, 0), P(0, 0), P(8, 5), P(0, 5) >>

CardQuads == { Permute(CardAxis, f) : f \in Perms4 } \cup { CardTurned, CardFlat }

TraceList ==
    << Straight(P(0, 0), P(0, 1)),
       Straight(P(0, 0), P(3, 8)),
       Straight(P(0, 0), P(15, 15)),
       Curve(<< P(0, 0), P(3, 3), P(15, 15) >>),
       Straight(P(0, 0), P(4, 23)),
       Straight(P(0, 0), P(10, 21)),
       Straight(P(0, 0), P(5, 16)),
       Straight(P(0, 0), P(6, 23)),
       Curve(<< P(0, 0), P(9, 12), P(15, 15) >>),
       Curve(<< P(0, 0), P(3, 4), P(6, 8), P(6, 23) >>) >>

NumTraces == 9      \* the first NumTraces entries of TraceList are inputs

Traces == { TraceList[i] : i \in 1..NumTraces }

LeafLists == UNION { [1..n -> Traces] : n \in MIN_LEAVES..MAX_LEAVES }

(***************************************************************************)
(* Specification of the measurement core of measure_leaf_length.           *)
(***************************************************************************)
InitMeasure ==
    /\ card_data \in CardQuads
    /\ leaf_data \in LeafLists
    /\ response = NotCalled
    /\ pts = NotCalled /\ ordered = NotCalled
    /\ img = NotCalled /\ quad_points = NotCalled /\ warped = NotCalled
    /\ endpoint = NotCalled /\ contours = NotCalled /\ detected = NotCalled
    /\ ServiceUnused /\ LimiterUnused

CallMeasure ==
    /\ response = NotCalled
    /\ response' \in measure_leaf_length(card_data, leaf_data)
    /\ UNCHANGED <<card_data, leaf_data, orderVars, warpVars, endpoint, detectVars, serviceVars, limiterVars>>

NextMeasure == CallMeasure

SpecMeasure == InitMeasure /\ [][NextMeasure]_vars

(***************************************************************************)
(* detect_credit_card                                                      *)
(*                                                                         *)
(* The image is seen through what OpenCV reports of it: the list of        *)
(* contours of cv2.findContours, each with its cv2.contourArea and the     *)
(* vertices of its cv2.approxPolyDP polygon.                               *)
(***************************************************************************)
CARD_WIDTH_HUNDREDTH_MM == 8560     \* 85.60 of TARGET_ASPECT_RATIO

CARD_HEIGHT_HUNDREDTH_MM == 5398    \* 53.98 of TARGET_ASPECT_RATIO

ASPECT_RATIO_TOLERANCE_TENTHS == 3  \* ASPECT_RATIO_TOLERANCE = 0.3

TOP_CONTOURS == 10                  \* contours[:10]

QUAD_VERTICES == 4                  \* len(approx) == 4

Contour(area, approx) == [area |-> area, approx |-> approx]

None == [found |-> FALSE]

Abs(a) == IF a < 0 THEN -a ELSE a

Min2(a, b) == IF a <= b THEN a ELSE b

\* cv2.boundingRect of integer points: w = max x - min x + 1, likewise h
BoundingWidth(approx) ==
    MaxOf({ approx[i][1] : i \in DOMAIN approx }) - MinOf({ approx[i][1] : i \in DOMAIN approx }) + 1

BoundingHeight(approx) ==
    MaxOf({ approx[i][2] : i \in DOMAIN approx }) - MinOf({ approx[i][2] : i \in DOMAIN approx }) + 1

\* abs(w / h - 85.60 / 53.98) < 0.3, cleared of its denominators
\* (h > 0 for every bounding box)
AspectMatches(w, h) ==
    10 * Abs(w * CARD_HEIGHT_HUNDREDTH_MM - h * CARD_WIDTH_HUNDREDTH_MM)
        < ASPECT_RATIO_TOLERANCE_TENTHS * CARD_HEIGHT_HUNDREDTH_MM * h

\* lines 842-848: the test a contour must pass
LooksLikeCard(c) ==
    /\ Len(c.approx) = QUAD_VERTICES
    /\ AspectMatches(BoundingWidth(c.approx), BoundingHeight(c.approx))

RECURSIVE InsertByArea(_, _)
\* c put behind every contour of the sorted list that is at least as large
InsertByArea(c, sorted) ==
    IF sorted = <<>> THEN << c >>
    ELSE IF Head(sorted).area >= c.area
         THEN << Head(sorted) >> \o InsertByArea(c, Tail(sorted))
         ELSE << c >> \o sorted

RECURSIVE SortedByArea(_)
\* sorted(contours, key=cv2.contourArea, reverse=True): largest first,
\* contours of equal area in their original order
SortedByArea(cs) ==
    IF cs = <<>> THEN <<>>
    ELSE InsertByArea(cs[Len(cs)], SortedByArea(SubSeq(cs, 1, Len(cs) - 1)))

Examined_all(cs) == SortedByArea(cs)

\* contours[:10] of the sorted list
Examined(cs) == SubSeq(SortedByArea(cs), 1, Min2(TOP_CONTOURS, Len(cs)))

detect_credit_card(cs) ==
    LET top  == Examined(cs)
        hits == { i \in 1..Len(top) : LooksLikeCard(top[i]) }
    IN  IF hits = {} THEN None
        ELSE order_points(top[MinOf(hits)].approx)

(***************************************************************************)
(* Specification of detect_credit_card.  A contour list is mostly          *)
(* triangles, with up to two quadrilaterals among them; the                *)
(* polygon of the contour at position i is shifted right by i, so the      *)
(* returned corners tell which contour was taken.                          *)
(***************************************************************************)
MaxContours == 11   \* the longest contour list

\* a triangle with the bounding box of a card
TriangleAt(i) == << <<i, 0>>, <<i + 8, 0>>, <<i, 5>> >>

\* quadrilaterals by bounding box: 9 x 6 (1.5), 15 x 8 (1.875),
\* 17 x 9 (1.889) and 9 x 7 (1.286); the target ratio is 1.5858
BoxAt(i, w, h) == << <<i + w - 1, h - 1>>, <<i, h - 1>>, <<i, 0>>, <<i + w - 1, 0>> >>

ShapeKinds == {"card", "wide", "too_wide", "too_narrow"}

ShapeAt(kind, i) ==
    CASE kind = "card"       -> BoxAt(i, 9, 6)
      [] kind = "wide"       -> BoxAt(i, 15, 8)
      [] kind = "too_wide"   -> BoxAt(i, 17, 9)
      [] kind = "too_narrow" -> BoxAt(i, 9, 7)

Arrangements == {"ascending", "descending", "equal"}

\* cv2.contourArea of the contour at position i of n
AreaAt(arrangement, i, n) ==
    CASE arrangement = "ascending"  -> i
      [] arrangement = "descending" -> n + 1 - i
      [] arrangement = "equal"      -> 1

\* where the quadrilaterals of a list of n contours are, and of which kind:
\* none, one at position p, or two at positions p < q
Placements(n) ==
    { <<0, "card", 0, "card">> }
        \cup { <<p, k, 0, "card">> : p \in 1..n, k \in ShapeKinds }
        \cup { pl \in (1..n) \X ShapeKinds \X (1..n) \X ShapeKinds : pl[1] < pl[3] }

PolygonAt(pl, i) ==
    IF i = pl[1] THEN ShapeAt(pl[2], i)
    ELSE IF i = pl[3] THEN ShapeAt(pl[4], i)
    ELSE TriangleAt(i)

ContourLists ==
    UNION { { [i \in 1..n |-> Contour(AreaAt(a, i, n), PolygonAt(pl, i))] :
              pl \in Placements(n), a \in Arrangements } :
            n \in 0..MaxContours }

InitDetect ==
    /\ contours \in ContourLists
    /\ detected = NotCalled
    /\ pts = NotCalled /\ ordered = NotCalled
    /\ img = NotCalled /\ quad_points = NotCalled /\ warped = NotCalled
    /\ card_data = NotCalled /\ leaf_data = NotCalled /\ response = NotCalled
    /\ endpoint = NotCalled
    /\ ServiceUnused /\ LimiterUnused

CallDetectCreditCard ==
    /\ detected = NotCalled
    /\ detected' = detect_credit_card(contours)
    /\ UNCHANGED <<contours, orderVars, warpVars, measureVars, endpoint, serviceVars, limiterVars>>

NextDetect == CallDetectCreditCard

SpecDetect == InitDetect /\ [][NextDetect]_vars

(***************************************************************************)
(* The handlers detect_card and measure_leaf_length as the client sees     *)
(* them: the checks of the upload and of crop_quad, and the except clauses *)
(* that turn an exception raised in the try block into the response.       *)
(***************************************************************************)
MAX_UPLOAD_SIZE == 10485760     \* 10 * 1024 * 1024 bytes

DETECTED_CONFIDENCE_HUNDREDTHS == 85    \* confidence=0.85

ALLOWED_IMAGE_TYPES == {"image/jpeg", "image/png", "image/jpg"}

\* the uploaded file: its content type, its size in bytes, and whether
\* cv2.imdecode can read it
Upload(content_type, size, decodable) ==
    [content_type |-> content_type, size |-> size, decodable |-> decodable]

\* crop_quad: absent, or a parsed list of points
NoCrop == [absent |-> TRUE]

Crop(points) == [points |-> points]

CropGiven(crop) == "points" \in DOMAIN crop

\* np.array([[p['x'], p['y']] for p in crop_data])
QuadOf(crop) == [i \in 1..Len(crop.points) |-> << crop.points[i].x, crop.points[i].y >>]

\* exceptions raised inside a try block
HTTPException(status_code, detail) ==
    [raised |-> "HTTPException", status_code |-> status_code, detail |-> detail]

ValueError(detail) == [raised |-> "ValueError", detail |-> detail]

Cv2Error == [raised |-> "cv2.error", detail |-> "OpenCV"]

\* lines 484-489 and 677-682: a ValueError becomes a 400 with its message;
\* every other exception, an HTTPException raised in the try block
\* included, is caught by "except Exception" and becomes a 500 whose detail
\* is the prefix followed by str(e) (only the prefix is kept here)
ExceptClauses(prefix, e) ==
    IF e.raised = "ValueError" THEN BadRequest(e.detail)
    ELSE [status_code |-> 500, detail |-> prefix]

\* lines 430-443 and 520-533: the checks of the uploaded file
UploadErrors(upload) ==
    IF upload.content_type \notin ALLOWED_IMAGE_TYPES
    THEN { HTTPException(400, "Invalid file type") }
    ELSE IF upload.size > MAX_UPLOAD_SIZE
         THEN { HTTPException(400, "File too large") }
    ELSE {}

CropCountError_at_least(crop) ==
    IF Len(crop.points) < 4
    THEN { ValueError("crop_quad must contain exactly 4 points") }
    ELSE {}

\* lines 455-456 and 569-570
CropCountError(crop) ==
    IF Len(crop.points) # 4
    THEN { ValueError("crop_quad must contain exactly 4 points") }
    ELSE {}

\* lines 459-460 and 581-582: the exceptions apply_quad_warp can raise on
\* the decoded image (none when it returns).  The ValueError of
\* order_points passes through; what cv2.warpPerspective does with an
\* output size that is not positive is left open, it may raise or return.
WarpErrors(upload, crop) ==
    LET w == apply_quad_warp(upload, QuadOf(crop))
    IN  IF IsError(w) THEN { ValueError(w.detail) }
        ELSE IF w.width <= 0 \/ w.height <= 0 THEN { Cv2Error }
        ELSE {}

\* card_corners=None of a response
NoCorners == << >>

CardDetectionResponse_confident(corners) ==
    IF corners = None
    THEN [success |-> FALSE, card_corners |-> NoCorners,
          confidence |-> DETECTED_CONFIDENCE_HUNDREDTHS,
          message |-> "Unable to detect card automatically. Please mark corners manually."]
    ELSE [success |-> TRUE,
          card_corners |-> << P(corners.tl[1], corners.tl[2]), P(corners.tr[1], corners.tr[2]),
                              P(corners.br[1], corners.br[2]), P(corners.bl[1], corners.bl[2]) >>,
          confidence |-> DETECTED_CONFIDENCE_HUNDREDTHS,
          message |-> "Card successfully detected"]

\* lines 465-482: the CardDetectionResponse for the corners found
CardDetectionResponse(corners) ==
    IF corners = None
    THEN [success |-> FALSE, card_corners |-> NoCorners, confidence |-> 0,
          message |-> "Unable to detect card automatically. Please mark corners manually."]
    ELSE [success |-> TRUE,
          card_corners |-> << P(corners.tl[1], corners.tl[2]), P(corners.tr[1], corners.tr[2]),
                              P(corners.br[1], corners.br[2]), P(corners.bl[1], corners.bl[2]) >>,
          confidence |-> DETECTED_CONFIDENCE_HUNDREDTHS,
          message |-> "Card successfully detected"]

\* the exceptions raised in the try block of detect_card before the
\* detection (lines 430-460), in the order of the code
DetectErrors(upload, crop) ==
    IF UploadErrors(upload) # {} THEN UploadErrors(upload)
    ELSE IF ~upload.decodable THEN { HTTPException(400, "Failed to decode image") }
    ELSE IF ~CropGiven(crop) THEN {}
    ELSE IF CropCountError(crop) # {} THEN CropCountError(crop)
    ELSE WarpErrors(upload, crop)

\* the responses of detect_card (lines 429-489); cs are the contours that
\* cv2.findContours reports of the image detection runs on
detect_card(upload, crop, cs) ==
    { ExceptClauses("Card detection failed", e) : e \in DetectErrors(upload, crop) }
        \cup IF DetectErrors(upload, crop) \subseteq { Cv2Error }
              THEN { CardDetectionResponse(detect_credit_card(cs)) }
              ELSE {}

\* the exceptions raised by lines 567-582 of measure_leaf_length: the image
\* is decoded only when crop_quad is given
MeasureCropErrors(upload, crop) ==
    IF ~CropGiven(crop) THEN {}
    ELSE IF CropCountError(crop) # {} THEN CropCountError(crop)
    ELSE IF ~upload.decodable THEN { HTTPException(400, "Failed to decode image") }
    ELSE WarpErrors(upload, crop)

measure_leaf_length_handler_crop_scaled(upload, crop, card, leaves) ==
    IF UploadErrors(upload) # {}
    THEN { ExceptClauses("Measurement failed", e) : e \in UploadErrors(upload) }
    ELSE IF ValidationErrors(card, leaves) # {} THEN ValidationErrors(card, leaves)
    ELSE { ExceptClauses("Measurement failed", e) : e \in MeasureCropErrors(upload, crop) }
            \cup IF MeasureCropErrors(upload, crop) \subseteq { Cv2Error }
                  THEN IF CropGiven(crop)
                       THEN measure_leaf_length(crop.points, leaves)
                       ELSE measure_leaf_length(card, leaves)
                  ELSE {}

\* the responses of the handler measure_leaf_length (lines 519-682)
measure_leaf_length_handler(upload, crop, card, leaves) ==
    IF UploadErrors(upload) # {}
    THEN { ExceptClauses("Measurement failed", e) : e \in UploadErrors(upload) }
    ELSE IF ValidationErrors(card, leaves) # {} THEN ValidationErrors(card, leaves)
    ELSE { ExceptClauses("Measurement failed", e) : e \in MeasureCropErrors(upload, crop) }
            \cup IF MeasureCropErrors(upload, crop) \subseteq { Cv2Error }
                  THEN measure_leaf_length(card, leaves)
                  ELSE {}

(***************************************************************************)
(* Specification of the two handlers: one request, to detect_card or to    *)
(* measure_leaf_length, is answered.                                       *)
(***************************************************************************)
Uploads ==
    { Upload(t, n, d) : t \in {"image/jpeg", "text/plain"},
                        n \in {MAX_UPLOAD_SIZE, MAX_UPLOAD_SIZE + 1},
                        d \in BOOLEAN }

\* crop_quad: absent, 3 points, a 12 x 9 rectangle, 4 coinciding points,
\* 5 points
Crops ==
    { NoCrop,
      Crop(<< P(0, 0), P(12, 0), P(12, 9) >>),
      Crop(<< P(12, 9), P(0, 0), P(12, 0), P(0, 9) >>),
      Crop(<< P(3, 3), P(3, 3), P(3, 3), P(3, 3) >>),
      Crop(<< P(0, 0), P(12, 0), P(12, 9), P(0, 9), P(6, 4) >>) }

\* card_corners: 4 points, 4 points with a zero-length first edge, 3 points,
\* 5 points
RequestCards ==
    { CardAxis, CardFlat,
      << P(0, 0), P(8, 0), P(8, 5) >>,
      << P(0, 0), P(8, 0), P(8, 5), P(0, 5), P(4, 2) >> }

\* leaf entries: a straight one, a curve, a curve of 2 points, a straight
\* one whose tip lacks y, and one that has neither form
RequestTraces ==
    { Straight(P(0, 0), P(3, 8)),
      Curve(<< P(0, 0), P(3, 4), P(6, 8) >>),
      Curve(<< P(0, 0), P(3, 4) >>),
      Straight(P(0, 0), [x |-> 3]),
      [base |-> P(0, 0)] }

RequestLeafLists == UNION { [1..n -> RequestTraces] : n \in 0..(MAX_LEAVES + 1) }

\* what cv2.findContours reports of the image of a detect request
RequestContours ==
    { << >>,
      << Contour(1, TriangleAt(1)), Contour(2, BoxAt(2, 9, 6)) >> }

InitRequest ==
    /\ img \in Uploads
    /\ quad_points \in Crops
    /\ \/ /\ endpoint = "detect_card"
          /\ contours \in RequestContours
          /\ card_data = NotCalled /\ leaf_data = NotCalled
       \/ /\ endpoint = "measure_length"
          /\ card_data \in RequestCards
          /\ leaf_data \in RequestLeafLists
          /\ contours = NotCalled
    /\ response = NotCalled
    /\ pts = NotCalled /\ ordered = NotCalled
    /\ warped = NotCalled /\ detected = NotCalled
    /\ ServiceUnused /\ LimiterUnused

HandleDetectCard ==
    /\ endpoint = "detect_card"
    /\ response = NotCalled
    /\ response' \in detect_card(img, quad_points, contours)
    /\ UNCHANGED <<card_data, leaf_data, orderVars, warpVars, endpoint, detectVars, serviceVars, limiterVars>>

HandleMeasureLength ==
    /\ endpoint = "measure_length"
    /\ response = NotCalled
    /\ response' \in measure_leaf_length_handler(img, quad_points, card_data, leaf_data)
    /\ UNCHANGED <<card_data, leaf_data, orderVars, warpVars, endpoint, detectVars, serviceVars, limiterVars>>

NextRequest == HandleDetectCard \/ HandleMeasureLength

SpecRequest == InitRequest /\ [][NextRequest]_vars

(***************************************************************************)
(* The harvest router as a running service: detect_card, measure_length,   *)
(* assess and rules requests arrive in any order and overlap.  A handler   *)
(* is a coroutine; detect_card and measure_leaf_length give up control     *)
(* once, at "await image.read()", where the handlers of other requests     *)
(* run.  The only module-level state the handlers read is MATURITY_CONFIG. *)
(***************************************************************************)
NumWorkers == 2     \* requests that can be in flight together

Workers == 1..NumWorkers

Idle == [pc |-> "idle"]

\* a handler suspended at "await image.read()" with its arguments
Reading(request) == [pc |-> "reading", request |-> request]

DetectRequest(upload, crop, cs) ==
    [op |-> "detect_card", image |-> upload, crop_quad |-> crop, contours |-> cs]

MeasureRequest(upload, crop, card, leaves) ==
    [op |-> "measure_length", image |-> upload, crop_quad |-> crop,
     card_corners |-> card, leaf_measurements |-> leaves]

\* measurements: the length_cm of each entry, in whole centimetres
AssessRequest(lengths) == [op |-> "assess", measurements |-> lengths]

RulesRequest == [op |-> "rules"]

\* the responses of measure_leaf_length with the stage read from the
\* MATURITY_CONFIG of the moment (lines 634-640)
measure_length_under(config, upload, crop, card, leaves) ==
    { IF IsSuccess(r) THEN [r EXCEPT !.stage = StageUnder(config, r.avg_leaf_length_cm)]
      ELSE r : r \in measure_leaf_length_handler(upload, crop, card, leaves) }

\* f"{x}" of a float with one decimal, "18.0" for 18.0
FormatTenths(t) == ToString(t \div 10) \o "." \o ToString(t % 10)

get_harvest_rules_one_threshold(config) ==
    [L1 |-> config.L2,
     L2 |-> config.L2,
     rules |-> [NOT_MATURE   |-> "< " \o FormatTenths(config.L2) \o " cm",
                INTERMEDIATE |-> FormatTenths(config.L2) \o " - "
                                     \o FormatTenths(config.L2) \o " cm",
                MATURE       |-> ">= " \o FormatTenths(config.L2) \o " cm"]]

\* lines 685-702
get_harvest_rules(config) ==
    [L1 |-> config.L1,
     L2 |-> config.L2,
     rules |-> [NOT_MATURE   |-> "< " \o FormatTenths(config.L1) \o " cm",
                INTERMEDIATE |-> FormatTenths(config.L1) \o " - "
                                     \o FormatTenths(config.L2) \o " cm",
                MATURE       |-> ">= " \o FormatTenths(config.L2) \o " cm"]]

\* lines 90-123: the status for avg_length = total / count.  The lengths
\* are whole centimetres, so total is exact, and the correctly rounded
\* quotient is >= a whole threshold exactly when total >= threshold * count.
calculate_harvest_status(total, count) ==
    IF total >= 25 * count THEN "Ready"
    ELSE IF total >= 20 * count THEN "Nearly Ready"
    ELSE IF total >= 15 * count THEN "Not Ready"
    ELSE "Too Young"

\* lines 253-300: of the HarvestAssessmentResponse the leaf count, the
\* extremes and the harvest status are kept; the thresholds are the
\* literals of calculate_harvest_status, not those of MATURITY_CONFIG
assess_harvest(lengths) ==
    [leaf_count     |-> Len(lengths),
     max_length_cm  |-> MaxOf({ lengths[i] : i \in 1..Len(lengths) }),
     min_length_cm  |-> MinOf({ lengths[i] : i \in 1..Len(lengths) }),
     harvest_status |-> calculate_harvest_status(SeqSum(lengths), Len(lengths))]

\* the responses a handler can give to a request under a MATURITY_CONFIG
Responses(config, r) ==
    CASE r.op = "detect_card" -> detect_card(r.image, r.crop_quad, r.contours)
      [] r.op = "measure_length" ->
             measure_length_under(config, r.image, r.crop_quad,
                                  r.card_corners, r.leaf_measurements)
      [] r.op = "assess" -> { assess_harvest(r.measurements) }
      [] r.op = "rules" -> { get_harvest_rules(config) }

Locals_of_first_busy(w) ==
    worker[MinOf({ v \in Workers : worker[v].pc = "reading" })].request

\* the arguments and local variables of the handler running on worker w:
\* they belong to its own invocation
Locals(w) == worker[w].request

(***************************************************************************)
(* Requests of the service specification.  The measured lengths are no     *)
(* decimal ties, so each request has one response.                         *)
(***************************************************************************)
GoodUpload == Upload("image/jpeg", MAX_UPLOAD_SIZE, TRUE)

CardContours == << Contour(1, TriangleAt(1)), Contour(2, BoxAt(2, 9, 6)) >>

AwaitingRequests ==
    { DetectRequest(GoodUpload, NoCrop, << >>),
      DetectRequest(GoodUpload, NoCrop, CardContours),
      MeasureRequest(GoodUpload, NoCrop, CardAxis, << Straight(P(0, 0), P(3, 8)) >>),
      MeasureRequest(GoodUpload, Crop(<< P(12, 9), P(0, 0), P(12, 0), P(0, 9) >>), CardAxis,
                     << Straight(P(0, 0), P(4, 23)), Straight(P(0, 0), P(6, 23)) >>) }

\* a request rejected for its content type, before the handler awaits
RejectedRequests ==
    { MeasureRequest(Upload("text/plain", MAX_UPLOAD_SIZE, TRUE), NoCrop, CardAxis,
                     << Straight(P(0, 0), P(3, 8)) >>) }

AssessRequests == { AssessRequest(<< 25 >>), AssessRequest(<< 10, 30 >>) }

InitService ==
    /\ MATURITY_CONFIG = MaturityConfigLoaded
    /\ worker = [w \in Workers |-> Idle]
    /\ answered = {}
    /\ pts = NotCalled /\ ordered = NotCalled
    /\ img = NotCalled /\ quad_points = NotCalled /\ warped = NotCalled
    /\ card_data = NotCalled /\ leaf_data = NotCalled /\ response = NotCalled
    /\ endpoint = NotCalled /\ contours = NotCalled /\ detected = NotCalled
    /\ LimiterUnused

harvestVars == <<orderVars, warpVars, measureVars, endpoint, detectVars>>

\* lines 429-438 and 519-528: the handler of detect_card or measure_length
\* starts on an idle worker, checks the content type and awaits the bytes
Receive(w) ==
    /\ worker[w] = Idle
    /\ \E r \in AwaitingRequests : worker' = [worker EXCEPT ![w] = Reading(r)]
    /\ UNCHANGED <<MATURITY_CONFIG, answered, harvestVars, limiterVars>>

\* lines 430-435, 484-489 and 520-525, 677-682: a request whose content
\* type is not allowed is answered before the handler awaits anything
Reject(w) ==
    /\ worker[w] = Idle
    /\ \E r \in RejectedRequests : \E resp \in Responses(MATURITY_CONFIG, r) :
           answered' = answered \cup { <<r, resp>> }
    /\ UNCHANGED <<MATURITY_CONFIG, worker, harvestVars, limiterVars>>

\* lines 439-489 and 529-682: the handler resumes with the bytes and
\* returns its response
Respond(w) ==
    /\ worker[w].pc = "reading"
    /\ \E resp \in Responses(MATURITY_CONFIG, Locals(w)) :
           answered' = answered \cup { <<worker[w].request, resp>> }
    /\ worker' = [worker EXCEPT ![w] = Idle]
    /\ UNCHANGED <<MATURITY_CONFIG, harvestVars, limiterVars>>

\* lines 253-300: assess_harvest has no await, it runs in one piece
HandleAssess(w) ==
    /\ worker[w] = Idle
    /\ \E r \in AssessRequests : \E resp \in Responses(MATURITY_CONFIG, r) :
           answered' = answered \cup { <<r, resp>> }
    /\ UNCHANGED <<MATURITY_CONFIG, worker, harvestVars, limiterVars>>

\* lines 685-702: get_harvest_rules has no await
HandleRules(w) ==
    /\ worker[w] = Idle
    /\ \E resp \in Responses(MATURITY_CONFIG, RulesRequest) :
           answered' = answered \cup { <<RulesRequest, resp>> }
    /\ UNCHANGED <<MATURITY_CONFIG, worker, harvestVars, limiterVars>>

NextService ==
    \E w \in Workers :
        Receive(w) \/ Reject(w) \/ Respond(w) \/ HandleAssess(w) \/ HandleRules(w)

SpecService == InitService /\ [][NextService]_vars

(***************************************************************************)
(* RateLimiter (app/services/rate_limiter.py): a sliding window per client *)
(* IP.  time.time() is a float; the model counts it in ticks of            *)
(* 1/TicksPerSecond second, so that int() has a fraction to cut off, and   *)
(* takes it to be non-decreasing.                                          *)
(***************************************************************************)
TicksPerSecond == 2     \* a tick is half a second

MaxRequests == 2        \* max_requests of the limiter under test

WindowSeconds == 2      \* window_seconds of the limiter under test

\* the clock stops here: time for a window to fill, move on and fill again
MaxTime == (WindowSeconds + 2) * TicksPerSecond

ClientIPs == {"192.168.1.100", "192.168.1.101"}

\* window_seconds in ticks
WindowTicks == WindowSeconds * TicksPerSecond

\* int(x) of a float x given in ticks: whole seconds, cut off towards zero
IntSeconds(ticks) ==
    IF ticks >= 0 THEN ticks \div TicksPerSecond
    ELSE 0 - ((0 - ticks) \div TicksPerSecond)

\* lines 55-56: the deque after the old requests are popped off its left
RECURSIVE Pruned(_, _)

Pruned(request_times, cutoff_time) ==
    IF request_times # << >> /\ request_times[1] < cutoff_time
    THEN Pruned(Tail(request_times), cutoff_time)
    ELSE request_times

\* the returned tuple (is_allowed, remaining_requests, retry_after_seconds)
Allowed(remaining) == <<TRUE, remaining, 0>>

Denied_no_extra_second(oldest_request, current_time) ==
    <<FALSE, 0, IntSeconds(oldest_request + WindowTicks - current_time)>>

\* lines 68-70
Denied(oldest_request, current_time) ==
    <<FALSE, 0, IntSeconds(oldest_request + WindowTicks - current_time) + 1>>

UnderLimit_inclusive(current_count) == current_count <= MaxRequests

\* line 61
UnderLimit(current_count) == current_count < MaxRequests

\* lines 48-70 run in one piece: the returned tuple and the log afterwards
is_allowed(log, client_ip, current_time) ==
    LET request_times == Pruned(log[client_ip], current_time - WindowTicks)
        current_count == Len(request_times)
    IN  IF UnderLimit(current_count)
        THEN [result |-> Allowed(MaxRequests - (current_count + 1)),
              log    |-> [log EXCEPT ![client_ip] = Append(request_times, current_time)]]
        ELSE [result |-> Denied(request_times[1], current_time),
              log    |-> [log EXCEPT ![client_ip] = request_times]]

(***************************************************************************)
(* What is remembered of the calls of the observed client IP that have     *)
(* returned: the timestamps of its last MaxRequests + 1 allowed calls, and *)
(* its last call with the result, and whether that call came after a       *)
(* denial and no sooner than the denial's retry_after seconds.  The calls  *)
(* of the other client act on the log only.                                *)
(***************************************************************************)
ObservedIP == "192.168.1.100"

LastOf(s, n) == IF Len(s) <= n THEN s ELSE SubSeq(s, Len(s) - n + 1, Len(s))

NoCalls == [allowed |-> << >>, calls |-> << >>]

\* the previous call was denied and retry_after seconds have passed since
WaitedOut(calls, current_time) ==
    /\ calls # << >>
    /\ "result" \in DOMAIN calls[1]
    /\ calls[1].result[1] = FALSE
    /\ current_time >= calls[1].time + calls[1].result[3] * TicksPerSecond

Recorded(history, current_time, result) ==
    [allowed |-> IF result[1] = TRUE
                 THEN LastOf(Append(history.allowed, current_time), MaxRequests + 1)
                 ELSE history.allowed,
     calls   |-> << [time   |-> current_time,
                     result |-> result,
                     waited |-> WaitedOut(history.calls, current_time)] >>]

(***************************************************************************)
(* Specification of the limiter called by one caller at a time, as from    *)
(* the event loop (prediction.py, lines 67-87).                            *)
(***************************************************************************)
InitLimiter ==
    /\ time = 0
    /\ request_log = [ip \in ClientIPs |-> << >>]
    /\ returned = NoCalls
    /\ thread = NotCalled
    /\ pts = NotCalled /\ ordered = NotCalled
    /\ img = NotCalled /\ quad_points = NotCalled /\ warped = NotCalled
    /\ card_data = NotCalled /\ leaf_data = NotCalled /\ response = NotCalled
    /\ endpoint = NotCalled /\ contours = NotCalled /\ detected = NotCalled
    /\ ServiceUnused

Tick ==
    /\ time < MaxTime
    /\ time' = time + 1
    /\ UNCHANGED <<request_log, thread, returned, harvestVars, serviceVars>>

CallIsAllowed(client_ip) ==
    LET call == is_allowed(request_log, client_ip, time)
    IN  /\ request_log' = call.log
        /\ returned' = IF client_ip = ObservedIP
                       THEN Recorded(returned, time, call.result)
                       ELSE returned
        /\ UNCHANGED <<time, thread, harvestVars, serviceVars>>

NextLimiter == Tick \/ \E ip \in ClientIPs : CallIsAllowed(ip)

SpecLimiter == InitLimiter /\ [][NextLimiter]_vars

(***************************************************************************)
(* Specification of the limiter called from several threads for the        *)
(* observed client IP.  is_allowed takes no lock: a thread can be          *)
(* preempted between any two of its operations on the shared deque (the    *)
(* test of the loop, popleft, len, append, the read of the oldest entry),  *)
(* each of which is atomic by itself.                                      *)
(***************************************************************************)
NumThreads == 2

Threads == 1..NumThreads

\* a thread outside is_allowed
Outside == [pc |-> "outside"]

\* the local variables of a call in progress
Frame(pc, current_time, current_count) ==
    [pc |-> pc, current_time |-> current_time, current_count |-> current_count]

At(t, pc) == thread[t].pc = pc

Goto(t, pc) == thread' = [thread EXCEPT ![t].pc = pc]

\* IndexError of popleft() or of request_times[0] on an empty deque
RecordedRaise(history, current_time) ==
    [allowed |-> history.allowed,
     calls   |-> << [time |-> current_time, raised |-> "IndexError"] >>]

InitThreads ==
    /\ time = 0
    /\ request_log = [ip \in ClientIPs |-> << >>]
    /\ returned = NoCalls
    /\ thread = [t \in Threads |-> Outside]
    /\ pts = NotCalled /\ ordered = NotCalled
    /\ img = NotCalled /\ quad_points = NotCalled /\ warped = NotCalled
    /\ card_data = NotCalled /\ leaf_data = NotCalled /\ response = NotCalled
    /\ endpoint = NotCalled /\ contours = NotCalled /\ detected = NotCalled
    /\ ServiceUnused

\* line 48: the clock moves on while calls are in progress
TickThreads ==
    /\ time < MaxTime
    /\ time' = time + 1
    /\ UNCHANGED <<request_log, thread, returned, harvestVars, serviceVars>>

\* lines 48-52
Enter(t) ==
    /\ At(t, "outside")
    /\ thread' = [thread EXCEPT ![t] = Frame("while", time, 0)]
    /\ UNCHANGED <<time, request_log, returned, harvestVars, serviceVars>>

\* line 55: the test of the loop
TestOldest(t) ==
    /\ At(t, "while")
    /\ IF /\ request_log[ObservedIP] # << >>
          /\ request_log[ObservedIP][1] < thread[t].current_time - WindowTicks
       THEN Goto(t, "popleft")
       ELSE Goto(t, "len")
    /\ UNCHANGED <<time, request_log, returned, harvestVars, serviceVars>>

\* line 56: popleft() takes whatever is leftmost by now
PopLeft(t) ==
    /\ At(t, "popleft")
    /\ IF request_log[ObservedIP] = << >>
       THEN /\ thread' = [thread EXCEPT ![t] = Outside]
            /\ returned' = RecordedRaise(returned, thread[t].current_time)
            /\ UNCHANGED request_log
       ELSE /\ request_log' = [request_log EXCEPT ![ObservedIP] = Tail(@)]
            /\ Goto(t, "while")
            /\ UNCHANGED returned
    /\ UNCHANGED <<time, harvestVars, serviceVars>>

\* line 59
CountRequests(t) ==
    /\ At(t, "len")
    /\ thread' = [thread EXCEPT ![t] = Frame("if", thread[t].current_time,
                                             Len(request_log[ObservedIP]))]
    /\ UNCHANGED <<time, request_log, returned, harvestVars, serviceVars>>

\* lines 61-65: the request is logged and allowed
AppendAndAllow(t) ==
    /\ At(t, "if")
    /\ UnderLimit(thread[t].current_count)
    /\ request_log' = [request_log EXCEPT ![ObservedIP] = Append(@, thread[t].current_time)]
    /\ returned' = Recorded(returned, thread[t].current_time,
                            Allowed(MaxRequests - (thread[t].current_count + 1)))
    /\ thread' = [thread EXCEPT ![t] = Outside]
    /\ UNCHANGED <<time, harvestVars, serviceVars>>

\* lines 66-70: the request is denied
Deny(t) ==
    /\ At(t, "if")
    /\ ~UnderLimit(thread[t].current_count)
    /\ returned' = IF request_log[ObservedIP] = << >>
                   THEN RecordedRaise(returned, thread[t].current_time)
                   ELSE Recorded(returned, thread[t].current_time,
                                 Denied(request_log[ObservedIP][1], thread[t].current_time))
    /\ thread' = [thread EXCEPT ![t] = Outside]
    /\ UNCHANGED <<time, request_log, harvestVars, serviceVars>>

NextThreads ==
    \/ TickThreads
    \/ \E t \in Threads :
           \/ Enter(t) \/ TestOldest(t) \/ PopLeft(t)
           \/ CountRequests(t) \/ AppendAndAllow(t) \/ Deny(t)

SpecThreads == InitThreads /\ [][NextThreads]_vars

(***************************************************************************)
(* Claims about order_points (SpecOrder).                                  *)
(***************************************************************************)
Called(r) == r # NotCalled

PointSet(q) == { q[i] : i \in 1..4 }

Xs(q) == { q[i][1] : i \in 1..4 }

Ys(q) == { q[i][2] : i \in 1..4 }

\* the four points are the corners of an axis-aligned rectangle of positive
\* width and height, in some order
IsAxisRectangle(q) ==
    /\ Cardinality(PointSet(q)) = 4
    /\ Cardinality(Xs(q)) = 2
    /\ Cardinality(Ys(q)) = 2

RectangleCorners(q) ==
    OrderedQuad(<<MinOf(Xs(q)), MinOf(Ys(q))>>, <<MaxOf(Xs(q)), MinOf(Ys(q))>>,
                <<MaxOf(Xs(q)), MaxOf(Ys(q))>>, <<MinOf(Xs(q)), MaxOf(Ys(q))>>)

\* C1: for the corners of an axis-aligned rectangle of positive width and
\* height, given in any of their 24 orders, order_points returns
\* [top-left, top-right, bottom-right, bottom-left] of that rectangle.
C1_RectangleOrdered ==
    (Called(ordered) /\ IsAxisRectangle(pts)) => ordered = RectangleCorners(pts)

\* C1 witness: a rectangle supplied bottom-right corner first has been ordered.
C1_Witness ==
    /\ Called(ordered) /\ IsAxisRectangle(pts)
    /\ pts[1] = RectangleCorners(pts).br
    /\ pts[2] = RectangleCorners(pts).tl

\* C2: tl is an input point of minimal x+y, br one of maximal x+y, tr one of
\* minimal y-x and bl one of maximal y-x; hence sum(tl) <= sum(tr) <= sum(br)
\* and sum(tl) <= sum(bl) <= sum(br).
C2_SumDiffExtremes ==
    Called(ordered) =>
        /\ {ordered.tl, ordered.tr, ordered.br, ordered.bl} \subseteq PointSet(pts)
        /\ \A i \in 1..4 :
              /\ PointSum(ordered.tl) <= pts[i][1] + pts[i][2]
              /\ PointSum(ordered.br) >= pts[i][1] + pts[i][2]
              /\ ordered.tr[2] - ordered.tr[1] <= pts[i][2] - pts[i][1]
              /\ ordered.bl[2] - ordered.bl[1] >= pts[i][2] - pts[i][1]
        /\ PointSum(ordered.tl) <= PointSum(ordered.tr)
        /\ PointSum(ordered.tr) <= PointSum(ordered.br)
        /\ PointSum(ordered.tl) <= PointSum(ordered.bl)
        /\ PointSum(ordered.bl) <= PointSum(ordered.br)

\* C2 witness: four distinct points that are no axis-aligned rectangle, with
\* two of them sharing the minimal sum, have been ordered.
C2_Witness ==
    /\ Called(ordered)
    /\ Cardinality(PointSet(pts)) = 4
    /\ ~IsAxisRectangle(pts)
    /\ \E i, j \in 1..4 : /\ pts[i] # pts[j]
                          /\ PointSum(pts[i]) = PointSum(ordered.tl)
                          /\ PointSum(pts[j]) = PointSum(ordered.tl)

\* C3: for any 4 distinct points the output of order_points is the same for
\* all 24 orderings of those points.
C3_OrderIndependent ==
    (Called(ordered) /\ Cardinality(PointSet(pts)) = 4) =>
        \A f \in Perms4 : order_points(Permute(pts, f)) = ordered

(***************************************************************************)
(* Claims about apply_quad_warp (SpecWarp).                                *)
(***************************************************************************)
\* twice the signed area of the triangle a, b, c
Cross(a, b, c) == (b[1] - a[1]) * (c[2] - a[2]) - (b[2] - a[2]) * (c[1] - a[1])

\* the four points are, in some order, the corners of a strictly convex
\* quadrilateral
IsConvexQuad(q) ==
    \E f \in Perms4 :
        LET c == Permute(q, f)
        IN  /\ Cross(c[1], c[2], c[3]) > 0 /\ Cross(c[2], c[3], c[4]) > 0
            /\ Cross(c[3], c[4], c[1]) > 0 /\ Cross(c[4], c[1], c[2]) > 0

\* C10: for any image and any 4 corner points, apply_quad_warp gives the
\* same result (size, corner correspondences, pixels) for every ordering of
\* the same 4 corners.  Stated for the corners of a strictly convex
\* quadrilateral, the inputs a warp is meant for.
C10_WarpOrderIndependent ==
    (Called(warped) /\ IsConvexQuad(quad_points)) =>
        \A f \in Perms4 : apply_quad_warp(img, Permute(quad_points, f)) = warped

\* one point has the least x+y, one the greatest, one the least y-x and one
\* the greatest
UniqueExtremes(q) ==
    \A i, j \in 1..4 :
        (i # j) =>
            /\ (q[i][1] + q[i][2] = q[j][1] + q[j][2]) =>
                   \E k, l \in 1..4 : /\ q[k][1] + q[k][2] < q[i][1] + q[i][2]
                                      /\ q[l][1] + q[l][2] > q[i][1] + q[i][2]
            /\ (q[i][2] - q[i][1] = q[j][2] - q[j][1]) =>
                   \E k, l \in 1..4 : /\ q[k][2] - q[k][1] < q[i][2] - q[i][1]
                                      /\ q[l][2] - q[l][1] > q[i][2] - q[i][1]

\* the integer nearest to the square root of n (no square root of an
\* integer lies half-way between two integers)
RoundRoot(n) == IF n > Sq(ISqrt(n)) + ISqrt(n) THEN ISqrt(n) + 1 ELSE ISqrt(n)

Warped == Called(warped) /\ ~IsError(warped)

\* C11: the output width is round(max(|tr-tl|, |br-bl|)) and the output
\* height is round(max(|bl-tl|, |br-tr|)) of the ordered quad: the longer of
\* the two opposite edges, rounded to the nearest integer.  Stated for the
\* corners of a strictly convex quadrilateral that order_points orders
\* without a tie.
C11_RoundedDimensions ==
    (Warped /\ IsConvexQuad(quad_points) /\ UniqueExtremes(quad_points)) =>
        LET o == warped.src
        IN  /\ warped.width = Max2(RoundRoot(Dist2(o.tl, o.tr)), RoundRoot(Dist2(o.bl, o.br)))
            /\ warped.height = Max2(RoundRoot(Dist2(o.tl, o.bl)), RoundRoot(Dist2(o.tr, o.br)))

\* C12: warping an axis-aligned rectangle [x0,x1] x [y0,y1] with integer
\* corners, x1 > x0 and y1 > y0, given in any corner order, yields an output
\* of width x1 - x0 and height y1 - y0, hence of the rectangle's ratio.
C12_RectangleDimensions ==
    (Called(warped) /\ IsAxisRectangle(quad_points)) =>
        /\ ~IsError(warped)
        /\ warped.width = MaxOf(Xs(quad_points)) - MinOf(Xs(quad_points))
        /\ warped.height = MaxOf(Ys(quad_points)) - MinOf(Ys(quad_points))
        /\ warped.width * (MaxOf(Ys(quad_points)) - MinOf(Ys(quad_points)))
               = warped.height * (MaxOf(Xs(quad_points)) - MinOf(Xs(quad_points)))

\* C12 witness: a rectangle wider than high, supplied bottom-left corner
\* first and top-right corner second, has been warped.
C12_Witness ==
    /\ Warped /\ IsAxisRectangle(quad_points)
    /\ quad_points[1] = RectangleCorners(quad_points).bl
    /\ quad_points[2] = RectangleCorners(quad_points).tr
    /\ warped.width > warped.height

\* C14: apply_quad_warp fails with a DegenerateQuad error whenever the
\* computed width or height is <= 0 (all 4 points coincide, or every edge is
\* shorter than a pixel); it never goes on to warp into a zero-sized image.
C14_DegenerateQuadRejected ==
    Called(warped) => (IsError(warped) \/ (warped.width > 0 /\ warped.height > 0))

(***************************************************************************)
(* Claims about the point-count check (SpecCount).                         *)
(***************************************************************************)
\* C13: order_points and apply_quad_warp fail with the wrong-point-count
\* error (ValueError 'Expected 4 points') for every input whose number of
\* points is not exactly 4 and return no ordered quad or image then; an
\* input of 4 points does not fail with that error.
C13_WrongPointCount ==
    /\ Called(ordered) =>
           IF Len(pts) # 4
           THEN ordered = [error |-> "ValueError", detail |-> "Expected 4 points"]
           ELSE DOMAIN ordered = {"tl", "tr", "br", "bl"}
    /\ Called(warped) =>
           IF Len(quad_points) # 4
           THEN warped = [error |-> "ValueError", detail |-> "Expected 4 points"]
           ELSE "image" \in DOMAIN warped

\* C13 witness: both functions have been called, order_points on 5 points
\* and apply_quad_warp on 3 points, and both have failed.
C13_Witness ==
    /\ Called(ordered) /\ Len(pts) = 5 /\ IsError(ordered)
    /\ Called(warped) /\ Len(quad_points) = 3 /\ IsError(warped)

(***************************************************************************)
(* Claims about measure_leaf_length (SpecMeasure).                         *)
(***************************************************************************)
Measured == IsSuccess(response)

NumLeaves == Len(response.leaf_lengths_cm)

LengthSum == SeqSum(response.leaf_lengths_cm)

\* C4: the scale is the top edge of the ordered reference quad over 85.60,
\* so a fixed set of 4 card_corners gives the same lengths, average, stage
\* and confidence in whatever order the corners are supplied.
C4_CardOrderIndependent ==
    Measured =>
        \A f \in Perms4 : response \in measure_leaf_length(Permute(card_data, f), leaf_data)

\* C5: in a successful result the stage is NOT_MATURE exactly when the
\* average is < 18.0, INTERMEDIATE exactly when 18.0 <= average < 25.0 and
\* MATURE exactly when the average is >= 25.0; exactly one stage is assigned.
C5_StageThresholds ==
    Measured =>
        /\ response.stage \in {"NOT_MATURE", "INTERMEDIATE", "MATURE"}
        /\ (response.stage = "NOT_MATURE") <=> (response.avg_leaf_length_cm < 180)
        /\ (response.stage = "INTERMEDIATE") <=>
               (180 <= response.avg_leaf_length_cm /\ response.avg_leaf_length_cm < 250)
        /\ (response.stage = "MATURE") <=> (response.avg_leaf_length_cm >= 250)

\* C5 witness: a result whose average is exactly 18.0 cm.
C5_Witness == Measured /\ response.avg_leaf_length_cm = 180

\* n^2 times the population variance of the returned lengths about their
\* exact mean, in tenths of a cm squared: n * sum(x^2) - (sum x)^2
VarianceTimesN2 ==
    NumLeaves * SeqSum([i \in 1..NumLeaves |-> Sq(response.leaf_lengths_cm[i])])
        - Sq(LengthSum)

\* C6: with 2 or 3 lengths the confidence is LOW exactly when the population
\* standard deviation of the returned lengths is >= 4, MEDIUM exactly when it
\* is >= 2 and < 4, HIGH exactly when it is < 2; with one length it is LOW.
C6_ConfidenceByDeviation ==
    Measured =>
        IF NumLeaves = 1 THEN response.confidence_status = "LOW"
        ELSE /\ (response.confidence_status = "LOW") <=>
                    (VarianceTimesN2 >= 1600 * Sq(NumLeaves))
             /\ (response.confidence_status = "MEDIUM") <=>
                    (/\ VarianceTimesN2 >= 400 * Sq(NumLeaves)
                     /\ VarianceTimesN2 < 1600 * Sq(NumLeaves))
             /\ (response.confidence_status = "HIGH") <=>
                    (VarianceTimesN2 < 400 * Sq(NumLeaves))

\* C7 as stated: avg_leaf_length_cm is the sum of the returned lengths
\* divided by their count.
C7_AverageIsMean ==
    Measured => NumLeaves * response.avg_leaf_length_cm = LengthSum

\* C7 as amended: avg_leaf_length_cm is the arithmetic mean of the returned
\* lengths rounded to one decimal place (within 0.05 cm of the mean).
C7_AverageIsRoundedMean ==
    Measured =>
        /\ 2 * (NumLeaves * response.avg_leaf_length_cm - LengthSum) <= NumLeaves
        /\ 2 * (LengthSum - NumLeaves * response.avg_leaf_length_cm) <= NumLeaves

\* C7 witness: three lengths whose mean is no whole number of tenths.
C7_Witness ==
    /\ Measured /\ NumLeaves = 3
    /\ LengthSum % 3 = 2

\* the brackets of a square root, in 1/SqrtScale pixels
RootLo(n) == ISqrt(n * Sq(SqrtScale))

RootHi(n) == IF Sq(RootLo(n)) = n * Sq(SqrtScale) THEN RootLo(n) ELSE RootLo(n) + 1

\* brackets of the claimed pixel length of an entry: base to tip for the
\* straight form, the sum over consecutive points for the curve form
ClaimedPixelsLo(leaf) ==
    IF "points" \in DOMAIN leaf
    THEN SeqSum([i \in 1..(Len(leaf.points) - 1) |->
                    RootLo(PointDist2(leaf.points[i], leaf.points[i + 1]))])
    ELSE RootLo(PointDist2(leaf.base, leaf.tip))

ClaimedPixelsHi(leaf) ==
    IF "points" \in DOMAIN leaf
    THEN SeqSum([i \in 1..(Len(leaf.points) - 1) |->
                    RootHi(PointDist2(leaf.points[i], leaf.points[i + 1]))])
    ELSE RootHi(PointDist2(leaf.base, leaf.tip))

\* C8: the pixel length of an entry is the Euclidean distance base to tip
\* (straight) or the sum of the distances between consecutive points
\* (curve), and the reported length is length_px / pixels_per_mm / 10
\* rounded to one decimal place: with pixels_per_mm = w / 85.60 the reported
\* k tenths of a cm satisfy |k - 856 * length_px / (10 * w)| <= 1/2.
C8_ReportedLength ==
    Measured =>
        \A i \in 1..Len(leaf_data) :
            LET k   == response.leaf_lengths_cm[i]
                wLo == RootLo(PointDist2(card_data[1], card_data[2]))
                wHi == RootHi(PointDist2(card_data[1], card_data[2]))
            IN  /\ (2 * k - 1) * 10 * wLo <= 2 * 856 * ClaimedPixelsHi(leaf_data[i])
                /\ 2 * 856 * ClaimedPixelsLo(leaf_data[i]) <= (2 * k + 1) * 10 * wHi

\* C8 witness: a request mixing a straight entry and a bent curve entry has
\* been measured.
C8_Witness ==
    /\ Measured
    /\ \E i, j \in 1..Len(leaf_data) :
          /\ "base" \in DOMAIN leaf_data[i]
          /\ "points" \in DOMAIN leaf_data[j]
          /\ response.leaf_lengths_cm[j] > response.leaf_lengths_cm[i]

\* C9: a curve entry whose first and last points are the base and tip of a
\* straight entry is reported at least as long as the straight entry.
C9_CurveAtLeastStraight ==
    Measured =>
        \A i, j \in 1..Len(leaf_data) :
            (/\ "points" \in DOMAIN leaf_data[i]
             /\ "base" \in DOMAIN leaf_data[j]
             /\ leaf_data[i].points[1] = leaf_data[j].base
             /\ leaf_data[i].points[Len(leaf_data[i].points)] = leaf_data[j].tip)
            => response.leaf_lengths_cm[i] >= response.leaf_lengths_cm[j]

\* C15: every successful measure result was computed with pixels_per_mm > 0;
\* a request that passes the input validation and whose calibration edge
\* (card corner 0 to card corner 1) has zero pixel length is rejected with
\* 'card width cannot be zero' and returns no lengths.
C15_PositiveScale ==
    Called(response) =>
        /\ Measured => PointDist2(card_data[1], card_data[2]) > 0
        /\ (/\ ValidationErrors(card_data, leaf_data) = {}
            /\ PointDist2(card_data[1], card_data[2]) = 0)
           => response = [status_code |-> 400,
                          detail |-> "Invalid card calibration: card width cannot be zero"]

\* C15 witness: a request with a zero-length calibration edge and three
\* leaf entries has been answered.
C15_Witness ==
    /\ Called(response) /\ ~Measured
    /\ card_data[1] = card_data[2]
    /\ Len(leaf_data) = 3

(***************************************************************************)
(* Claims about detect_credit_card (SpecDetect).                           *)
(***************************************************************************)
\* the number of contours examined before the contour at position i:
\* the larger ones, and the equally large ones found before it
Rank(i) ==
    Cardinality({ j \in 1..Len(contours) :
                    \/ contours[j].area > contours[i].area
                    \/ contours[j].area = contours[i].area /\ j < i })

\* a polygon of exactly 4 vertices whose bounding box has a ratio w/h
\* within 0.3 of 85.60/53.98 = 1.58577..., i.e. 1.2858 < w/h < 1.8858
\* (no ratio of the boxes considered lies between the fourth and the fifth
\* decimal of either limit)
Qualifies(i) ==
    LET w == BoundingWidth(contours[i].approx)
        h == BoundingHeight(contours[i].approx)
    IN  /\ Len(contours[i].approx) = 4
        /\ 10000 * w > 12858 * h
        /\ 10000 * w < 18858 * h

Candidates == { i \in 1..Len(contours) : Rank(i) < 10 /\ Qualifies(i) }

\* C20: detect_credit_card examines the contours in decreasing area order
\* and only the 10 largest; it returns the ordered corners of the first
\* examined contour with exactly 4 vertices and a bounding-box ratio within
\* 0.3 of 85.60/53.98, and None when none of those 10 qualifies, even if a
\* smaller contour would.
C20_FirstOfTenLargest ==
    Called(detected) =>
        IF Candidates = {} THEN detected = [found |-> FALSE]
        ELSE \E i \in Candidates :
                /\ \A j \in Candidates : Rank(i) <= Rank(j)
                /\ detected = order_points(contours[i].approx)

\* C20 witness: 11 contours of which only the smallest, left unexamined,
\* looks like a card; nothing has been detected.
C20_Witness ==
    /\ Called(detected) /\ detected = [found |-> FALSE]
    /\ Len(contours) = 11
    /\ \E i \in 1..11 : Qualifies(i) /\ Rank(i) = 10

(***************************************************************************)
(* Claims about the handlers (SpecRequest).                                *)
(***************************************************************************)
DetectAnswered == endpoint = "detect_card" /\ Called(response)

MeasureAnswered == endpoint = "measure_length" /\ Called(response)

\* the response is a detection or a measurement result, not an error
IsResult(r) == "success" \in DOMAIN r \/ "leaf_lengths_cm" \in DOMAIN r

\* the upload passes the content-type and size checks
UploadAccepted ==
    /\ img.content_type \in {"image/jpeg", "image/png", "image/jpg"}
    /\ img.size <= 10 * 1024 * 1024

\* the reported k tenths of a cm are the length of the entry leaf under the
\* scale of the card: |k - 856 * length_px / (10 * w)| <= 1/2
IsLengthOf(k, leaf, card) ==
    /\ (2 * k - 1) * 10 * RootLo(PointDist2(card[1], card[2])) <= 2 * 856 * ClaimedPixelsHi(leaf)
    /\ 2 * 856 * ClaimedPixelsLo(leaf) <= (2 * k + 1) * 10 * RootHi(PointDist2(card[1], card[2]))

\* C16: a measure request is accepted only with 1 to 3 leaf entries; one
\* that passes the checks made before (upload, 4 card corners) and carries
\* another number of entries is rejected with 'Must provide 1-3 leaf
\* measurements'.  Straight and curve entries may be mixed, and a
\* successful result holds exactly one length per entry, in input order.
C16_OneToThreeEntries ==
    MeasureAnswered =>
        /\ IsResult(response) =>
               /\ Len(leaf_data) \in 1..3
               /\ Len(response.leaf_lengths_cm) = Len(leaf_data)
               /\ \A i \in 1..Len(leaf_data) :
                      IsLengthOf(response.leaf_lengths_cm[i], leaf_data[i], card_data)
        /\ (UploadAccepted /\ Len(card_data) = 4 /\ Len(leaf_data) \notin 1..3) =>
               response = [status_code |-> 400, detail |-> "Must provide 1-3 leaf measurements"]

\* C16 witness: a request of three entries, a curve between two straight
\* ones, has been measured, the curve coming out longer.
C16_Witness ==
    /\ MeasureAnswered /\ IsResult(response)
    /\ Len(leaf_data) = 3
    /\ "base" \in DOMAIN leaf_data[1] /\ "points" \in DOMAIN leaf_data[2]
    /\ "base" \in DOMAIN leaf_data[3]
    /\ response.leaf_lengths_cm[2] > response.leaf_lengths_cm[1]
    /\ response.leaf_lengths_cm[3] = response.leaf_lengths_cm[1]

\* a point lacking x or y
LacksCoordinate(point) == ~("x" \in DOMAIN point /\ "y" \in DOMAIN point)

\* a curve with fewer than 3 points, a point lacking x or y, or an entry
\* with neither a points array nor both base and tip
Malformed(leaf) ==
    IF "points" \in DOMAIN leaf
    THEN \/ Len(leaf.points) < 3
         \/ \E j \in 1..Len(leaf.points) : LacksCoordinate(leaf.points[j])
    ELSE IF "base" \in DOMAIN leaf /\ "tip" \in DOMAIN leaf
         THEN LacksCoordinate(leaf.base) \/ LacksCoordinate(leaf.tip)
         ELSE TRUE

\* C17: a measure request with any malformed leaf entry never yields a
\* result, not even a partial list of lengths; one that passes the checks
\* made before (upload, 4 card corners, 1 to 3 entries) is rejected with a
\* validation error (status 400) before any leaf is measured.
C17_MalformedRejected ==
    (MeasureAnswered /\ \E i \in 1..Len(leaf_data) : Malformed(leaf_data[i])) =>
        /\ ~IsResult(response)
        /\ "leaf_lengths_cm" \notin DOMAIN response
        /\ (UploadAccepted /\ Len(card_data) = 4 /\ Len(leaf_data) \in 1..3) =>
               /\ response.status_code = 400
               /\ response.detail # "Must provide 1-3 leaf measurements"
               /\ response.detail # "card_corners must contain exactly 4 points"

\* C17 witness: a request whose first two entries are well-formed and whose
\* third is a curve of 2 points has been rejected, naming leaf 3.
C17_Witness ==
    /\ MeasureAnswered /\ UploadAccepted /\ Len(card_data) = 4
    /\ Len(leaf_data) = 3
    /\ ~Malformed(leaf_data[1]) /\ ~Malformed(leaf_data[2])
    /\ "points" \in DOMAIN leaf_data[3] /\ Len(leaf_data[3].points) = 2
    /\ response = [status_code |-> 400,
                   detail |-> "Leaf 3 must have at least 3 points for curve tracing"]

CropMiscounted == "points" \in DOMAIN quad_points /\ Len(quad_points.points) # 4

CardMiscounted == endpoint = "measure_length" /\ Len(card_data) # 4

\* C18: a detect or measure request whose card_corners or crop_quad does
\* not contain exactly 4 points never yields a detection or measurement
\* result; when it passes the checks made before the count it is rejected
\* with status 400 and a message naming the field.
C18_QuadPointCount ==
    Called(response) =>
        /\ (CardMiscounted \/ CropMiscounted) => ~IsResult(response)
        /\ (CardMiscounted /\ UploadAccepted) =>
               response = [status_code |-> 400,
                           detail |-> "card_corners must contain exactly 4 points"]
        /\ (/\ CropMiscounted /\ UploadAccepted
            /\ endpoint = "detect_card" => img.decodable
            /\ endpoint = "measure_length" =>
                   /\ Len(card_data) = 4 /\ Len(leaf_data) \in 1..3
                   /\ \A i \in 1..Len(leaf_data) : ~Malformed(leaf_data[i]))
           => response = [status_code |-> 400,
                          detail |-> "crop_quad must contain exactly 4 points"]

\* C18 witness: a measure request with 4 card corners and a crop_quad of 5
\* points has been rejected with the crop_quad message.
C18_Witness ==
    /\ MeasureAnswered /\ response.status_code = 400
    /\ response.detail = "crop_quad must contain exactly 4 points"
    /\ Len(card_data) = 4 /\ Len(quad_points.points) = 5

\* C19: for detect and for measure, image bytes that cannot be decoded
\* always result in the client error 'Failed to decode image' (status 400),
\* never in a result and never in a generic internal error.  Stated for
\* requests without any other defect.
C19_DecodeFailure ==
    (/\ Called(response) /\ UploadAccepted /\ ~img.decodable
     /\ ~CropMiscounted
     /\ endpoint = "measure_length" =>
            /\ Len(card_data) = 4 /\ Len(leaf_data) \in 1..3
            /\ \A i \in 1..Len(leaf_data) : ~Malformed(leaf_data[i])
            /\ card_data[1] # card_data[2])
    => response = [status_code |-> 400, detail |-> "Failed to decode image"]

\* C21: every detect response that is returned has success true exactly
\* when card_corners is a list of exactly 4 points, and then confidence
\* 0.85; it has success false exactly when card_corners is null, and then
\* confidence 0.0.
C21_DetectResponseShape ==
    (DetectAnswered /\ IsResult(response)) =>
        /\ response.success <=> Len(response.card_corners) = 4
        /\ response.success => response.confidence = 85
        /\ ~response.success <=> response.card_corners = << >>
        /\ ~response.success => response.confidence = 0
        /\ \A i \in 1..Len(response.card_corners) :
               DOMAIN response.card_corners[i] = {"x", "y"}

\* C21 witness: a detect request whose image shows no card has been
\* answered with success false, no corners and confidence 0.0.
C21_Witness ==
    /\ DetectAnswered /\ IsResult(response)
    /\ contours = << >>
    /\ ~response.success /\ response.card_corners = << >> /\ response.confidence = 0

(***************************************************************************)
(* Further claims about measure_leaf_length (SpecMeasure).                 *)
(***************************************************************************)
\* C22: in every successful measure result retake_message is non-null
\* exactly when confidence_status is LOW; MEDIUM and HIGH results always
\* carry a null retake_message.
C22_RetakeOnlyWhenLow ==
    Measured =>
        /\ response.confidence_status \in {"LOW", "MEDIUM", "HIGH"}
        /\ (response.retake_message # "null") <=> (response.confidence_status = "LOW")

\* C22 witness: a result of 3 lengths with MEDIUM confidence and a null
\* retake_message.
C22_Witness ==
    /\ Measured /\ NumLeaves = 3
    /\ response.confidence_status = "MEDIUM"
    /\ response.retake_message = "null"

(***************************************************************************)
(* Claims about the running service (SpecService).                         *)
(***************************************************************************)
AnswersTo(op) == { a \in answered : a[1].op = op }

\* C23: after any sequence of detect, measure, assess and rules requests
\* the rules operation returns L1 = 18.0 and L2 = 25.0, a measure result's
\* stage is assigned by these same two thresholds, and MATURITY_CONFIG is
\* what it was when the module was loaded.
C23_ThresholdsReadOnly ==
    /\ MATURITY_CONFIG = [L1 |-> 180, L2 |-> 250]
    /\ \A a \in AnswersTo("rules") :
           /\ a[2].L1 = 180 /\ a[2].L2 = 250
           /\ a[2].rules.NOT_MATURE = "< 18.0 cm"
           /\ a[2].rules.INTERMEDIATE = "18.0 - 25.0 cm"
           /\ a[2].rules.MATURE = ">= 25.0 cm"
    /\ \A a \in AnswersTo("measure_length") : \A b \in AnswersTo("rules") :
           IsSuccess(a[2]) =>
               /\ (a[2].stage = "NOT_MATURE") <=> (a[2].avg_leaf_length_cm < b[2].L1)
               /\ (a[2].stage = "INTERMEDIATE") <=>
                      (b[2].L1 <= a[2].avg_leaf_length_cm /\ a[2].avg_leaf_length_cm < b[2].L2)
               /\ (a[2].stage = "MATURE") <=> (a[2].avg_leaf_length_cm >= b[2].L2)

\* C23 witness: detect, assess and rules requests have been answered, and
\* measure requests with a NOT_MATURE and with a MATURE result.
C23_Witness ==
    /\ AnswersTo("detect_card") # {} /\ AnswersTo("assess") # {}
    /\ AnswersTo("rules") # {}
    /\ \E a \in AnswersTo("measure_length") : IsSuccess(a[2]) /\ a[2].stage = "NOT_MATURE"
    /\ \E a \in AnswersTo("measure_length") : IsSuccess(a[2]) /\ a[2].stage = "MATURE"

\* the response a detect or measure request gets when it is the only
\* request a freshly loaded service handles
AloneResponses(r) == Responses(MaturityConfigLoaded, r)

WithinLimit ==
    LET a == returned.allowed
    IN  Len(a) = MaxRequests + 1 => a[Len(a)] - a[1] > WindowTicks

\* the last call of the client IP that has returned
LastCall == returned.calls[1]

\* the timestamps of the calls allowed to the client IP before its last call
AllowedBefore ==
    LET a == returned.allowed
    IN  IF LastCall.result[1] = TRUE THEN SubSeq(a, 1, Len(a) - 1) ELSE a

\* max_requests calls were allowed within the window of the last call
WindowFull ==
    LET b == AllowedBefore
    IN  /\ Len(b) >= MaxRequests
        /\ b[Len(b) - MaxRequests + 1] >= LastCall.time - WindowTicks

\* C25: for any sequence of is_allowed calls from one client IP the number
\* of allowed calls with timestamps inside any interval of length
\* window_seconds never exceeds max_requests; after max_requests allowed
\* calls within one window the next call in that window returns
\* (False, 0, retry_after) and is not recorded.
C25_WindowLimit ==
    /\ WithinLimit
    /\ (returned.calls # << >> /\ WindowFull) =>
           /\ LastCall.result[1] = FALSE
           /\ LastCall.result[2] = 0
           /\ LastCall.result[3] >= 1
           /\ request_log[ObservedIP] = LastOf(AllowedBefore, MaxRequests)

\* C25 witness: the client IP had max_requests + 1 calls allowed, the
\* window having moved past the first of them, and its last call, made in
\* the window of the last max_requests of them, was denied.
C25_Witness ==
    /\ Len(returned.allowed) = MaxRequests + 1
    /\ WindowFull
    /\ LastCall.result[1] = FALSE
    /\ LastCall.time > returned.allowed[MaxRequests + 1]

\* C30: a denial carries retry_after >= 1, and when the same client IP
\* makes no other request in between, its request made retry_after seconds
\* or more after the denial is allowed.
C30_RetryAfterHonoured ==
    returned.calls # << >> =>
        /\ LastCall.result[1] = FALSE => LastCall.result[3] >= 1
        /\ LastCall.waited => LastCall.result[1] = TRUE

\* C30 witness: the client IP was denied, made its next request
\* retry_after seconds or more later and was allowed, into a log that
\* still held an earlier request.
C30_Witness ==
    /\ returned.calls # << >>
    /\ LastCall.waited /\ LastCall.result[1] = TRUE
    /\ Len(request_log[ObservedIP]) >= 2

\* C26: when is_allowed is executed concurrently by several threads for
\* the same client IP, with their reads and writes of the request log
\* interleaved arbitrarily, the number of requests allowed within one
\* window still never exceeds max_requests.
C26_ThreadSafe ==
    /\ WithinLimit
    /\ Len(request_log[ObservedIP]) <= MaxRequests

(***************************************************************************)
(* A further claim about order_points (SpecOrder).                         *)
(***************************************************************************)
\* C27: for any convex quadrilateral with 4 distinct corners, rotated and
\* skewed ones included, order_points returns each of the 4 input points
\* exactly once, with the top corners above the bottom corners and the
\* left corners left of the right corners (y grows downwards).
C27_ConvexPermutation ==
    (Called(ordered) /\ IsConvexQuad(pts)) =>
        /\ { ordered.tl, ordered.tr, ordered.br, ordered.bl } = PointSet(pts)
        /\ Cardinality({ ordered.tl, ordered.tr, ordered.br, ordered.bl }) = 4
        /\ ordered.tl[2] <= ordered.bl[2] /\ ordered.tr[2] <= ordered.br[2]
        /\ ordered.tl[1] <= ordered.tr[1] /\ ordered.bl[1] <= ordered.br[1]

(***************************************************************************)
(* Further claims about the handlers (SpecRequest).                        *)
(***************************************************************************)
\* the request reaches the decoding of the image: always in detect_card,
\* in measure_leaf_length when the card and the leaves pass validation and
\* a crop_quad of 4 points is given
ReachesDecode ==
    /\ UploadAccepted
    /\ endpoint = "measure_length" =>
           /\ Len(card_data) = 4 /\ Len(leaf_data) \in 1..3
           /\ \A i \in 1..Len(leaf_data) : ~Malformed(leaf_data[i])
           /\ "points" \in DOMAIN quad_points /\ Len(quad_points.points) = 4

\* C28: in detect_card and measure_leaf_length every rejection raised as a
\* client error with status 400 inside the handler (invalid file type,
\* upload larger than 10MB, failed image decode) reaches the caller with
\* status 400 and its original detail, never as a status-500 response.
C28_ClientErrorsKept ==
    Called(response) =>
        /\ img.content_type \notin {"image/jpeg", "image/png", "image/jpg"} =>
               response = [status_code |-> 400, detail |-> "Invalid file type"]
        /\ (/\ img.content_type \in {"image/jpeg", "image/png", "image/jpg"}
            /\ img.size > 10 * 1024 * 1024) =>
               response = [status_code |-> 400, detail |-> "File too large"]
        /\ (ReachesDecode /\ ~img.decodable) =>
               response = [status_code |-> 400, detail |-> "Failed to decode image"]

\* the results, errors left out, of the measure request made with another
\* upload and crop_quad and the same card_corners and leaf_measurements
ResultsWith(upload, crop) ==
    { r \in measure_leaf_length_handler(upload, crop, card_data, leaf_data) : IsResult(r) }

\* C29: whenever a measure request succeeds, its result depends only on
\* card_corners and leaf_measurements: the request made with any other
\* image content and with a valid crop_quad supplied, omitted or changed
\* has, when it succeeds too, the same result.
C29_CropIndependent ==
    (MeasureAnswered /\ IsResult(response)) =>
        /\ response \in measure_leaf_length(card_data, leaf_data)
        /\ \A upload \in Uploads : \A crop \in Crops :
               ResultsWith(upload, crop) # {} =>
                   ResultsWith(upload, crop) = ResultsWith(img, quad_points)

\* C29 witness: a measure request with a decodable image and a crop_quad
\* of 4 points that span a rectangle has succeeded.
C29_Witness ==
    /\ MeasureAnswered /\ IsResult(response)
    /\ img.decodable
    /\ "points" \in DOMAIN quad_points /\ Len(quad_points.points) = 4
    /\ quad_points.points[1] # quad_points.points[2]

====
